---- MODULE Spec2Model ----
(***************************************************************************)
(* Model of package slices (src/slices/slices.go).  A slice is a view      *)
(* (arr, off, len, cap) over a backing array kept in a heap; the functions *)
(* of the package are operators over (heap, slice, arguments) that return  *)
(* the heap after the call, the returned slice and whether the call        *)
(* panicked.  Go's slice expressions, copy, make and append are modelled   *)
(* with their run-time checks, so a panic and the writes that precede it   *)
(* are visible.                                                            *)
(***************************************************************************)
EXTENDS Integers, Sequences, FiniteSets, TLC

\* ---- bounds ----
MaxCap == 3      \* largest capacity of the caller's slice
MaxVal == 2      \* element values are 0..MaxVal (0 is the zero value)
MaxVs == 2       \* largest number of inserted values
MaxN == 2        \* largest n passed to Grow
MaxExtra == 1    \* largest slack append adds above the needed capacity
MaxOff == 1      \* largest offset of the caller's slice in its backing array

Values == 0..MaxVal

SeqsUpTo(n) == UNION {[1..k -> Values] : k \in 0..n}

Min(a, b) == IF a < b THEN a ELSE b

\* ---- slices over a heap of backing arrays ----
NilSlice == [arr |-> 0, off |-> 0, len |-> 0, cap |-> 0]

\* the elements s[0], ..., s[len(s)-1] (1-based in the model)
Elems(h, s) == [k \in 1..s.len |-> h[s.arr][s.off + k]]

\* s[lo:] is legal iff 0 <= lo <= len(s)
ValidLo(s, lo) == 0 <= lo /\ lo <= s.len

SliceFrom(s, lo) ==
  [arr |-> s.arr, off |-> s.off + lo, len |-> s.len - lo, cap |-> s.cap - lo]

\* s[:hi] is legal iff 0 <= hi <= cap(s)
ValidHi(s, hi) == 0 <= hi /\ hi <= s.cap

SliceTo(s, hi) == [s EXCEPT !.len = hi]

\* copy(dst, src): number of elements copied
CopyN(dst, src) == Min(dst.len, src.len)

\* copy(dst, src): the heap afterwards (memmove: the source is read before
\* any write)
Copy(h, dst, src) ==
  LET n == CopyN(dst, src)
      old == h[dst.arr]
  IN IF n = 0 THEN h
     ELSE [h EXCEPT ![dst.arr] =
             [k \in 1..Len(old) |->
                IF k > dst.off /\ k <= dst.off + n
                THEN h[src.arr][src.off + (k - dst.off)]
                ELSE old[k]]]

\* make([]T, l, c): a fresh zeroed backing array
Make(h, l, c) ==
  [heap |-> Append(h, [k \in 1..c |-> 0]),
   res |-> [arr |-> Len(h) + 1, off |-> 0, len |-> l, cap |-> c]]

\* the implicit slice of a variadic call f(x, y, ...)
Literal(h, vals) ==
  [heap |-> Append(h, vals),
   res |-> [arr |-> Len(h) + 1, off |-> 0, len |-> Len(vals), cap |-> Len(vals)]]

Panic(h) == [heap |-> h, res |-> NilSlice, panic |-> TRUE]

Return(h, s) == [heap |-> h, res |-> s, panic |-> FALSE]

\* append(a, b...): in place when the capacity suffices, otherwise into a
\* fresh array of capacity len(a)+len(b)+extra
GoAppend(h, a, b, extra) ==
  IF b.len = 0 THEN Return(h, a)
  ELSE IF a.len + b.len <= a.cap
  THEN LET a2 == SliceTo(a, a.len + b.len)
       IN Return(Copy(h, SliceFrom(a2, a.len), b), a2)
  ELSE LET m == Make(h, a.len + b.len, a.len + b.len + extra)
           h1 == Copy(m.heap, m.res, a)
       IN Return(Copy(h1, SliceFrom(m.res, a.len), b), m.res)

\* ---- Compare ----
RECURSIVE CompareLoop(_, _, _, _)
CompareLoop(s1, s2, i, maxLen) ==
  IF i < maxLen
  THEN IF s1[i + 1] = s2[i + 1] THEN CompareLoop(s1, s2, i + 1, maxLen)
       ELSE IF s1[i + 1] < s2[i + 1] THEN -1 ELSE 1
  ELSE IF Len(s1) = Len(s2) THEN 0
       ELSE IF Len(s1) < Len(s2) THEN -1 ELSE 1

RECURSIVE CompareNoTieLoop(_, _, _, _)
CompareNoTieLoop(s1, s2, i, maxLen) ==
  IF i < maxLen
  THEN IF s1[i + 1] = s2[i + 1] THEN CompareNoTieLoop(s1, s2, i + 1, maxLen)
       ELSE IF s1[i + 1] < s2[i + 1] THEN -1 ELSE 1
  ELSE 0

\* mutant: the length tie-break after the common prefix is missing
CompareNoTie(s1, s2) ==
  CompareNoTieLoop(s1, s2, 0, Min(Len(s1), Len(s2)))

Compare(s1, s2) ==
  LET maxLen == IF Len(s1) > Len(s2) THEN Len(s2) ELSE Len(s1)
  IN CompareLoop(s1, s2, 0, maxLen)

\* ---- Insert ----
\* mutant: the fast path writes the values before it shifts the tail
InsertValuesFirst(h, s, i, vs) ==
  LET n == s.len + vs.len
  IN IF n <= s.cap
     THEN LET s2 == SliceTo(s, n)
          IN IF ~ValidLo(s2, i) THEN Panic(h)
             ELSE LET h1 == Copy(h, SliceFrom(s2, i), vs)
                  IN IF ~ValidLo(s2, i + vs.len) \/ ~ValidLo(s, i) THEN Panic(h1)
                     ELSE Return(Copy(h1, SliceFrom(s2, i + vs.len), SliceFrom(s, i)), s2)
     ELSE LET m == Make(h, n, n)
              s2 == m.res
          IN IF ~ValidHi(s, i) THEN Panic(m.heap)
             ELSE LET h1 == Copy(m.heap, s2, SliceTo(s, i))
                  IN IF ~ValidLo(s2, i) THEN Panic(h1)
                     ELSE LET h2 == Copy(h1, SliceFrom(s2, i), vs)
                          IN IF ~ValidLo(s2, i + vs.len) \/ ~ValidLo(s, i) THEN Panic(h2)
                             ELSE Return(Copy(h2, SliceFrom(s2, i + vs.len), SliceFrom(s, i)), s2)

\* mutant: the allocating path copies the tail to s2[i:] instead of
\* s2[i+len(vs):]
InsertTailAtI(h, s, i, vs) ==
  LET n == s.len + vs.len
  IN IF n <= s.cap
     THEN LET s2 == SliceTo(s, n)
          IN IF ~ValidLo(s2, i + vs.len) \/ ~ValidLo(s, i) THEN Panic(h)
             ELSE LET h1 == Copy(h, SliceFrom(s2, i + vs.len), SliceFrom(s, i))
                  IN IF ~ValidLo(s2, i) THEN Panic(h1)
                     ELSE Return(Copy(h1, SliceFrom(s2, i), vs), s2)
     ELSE LET m == Make(h, n, n)
              s2 == m.res
          IN IF ~ValidHi(s, i) THEN Panic(m.heap)
             ELSE LET h1 == Copy(m.heap, s2, SliceTo(s, i))
                  IN IF ~ValidLo(s2, i) THEN Panic(h1)
                     ELSE LET h2 == Copy(h1, SliceFrom(s2, i), vs)
                          IN IF ~ValidLo(s2, i) \/ ~ValidLo(s, i) THEN Panic(h2)
                             ELSE Return(Copy(h2, SliceFrom(s2, i), SliceFrom(s, i)), s2)

\* Insert(s, i, vs...).  The arguments of each copy are evaluated (and may
\* panic) before the copy writes.
Insert(h, s, i, vs) ==
  LET n == s.len + vs.len
  IN IF n <= s.cap
     THEN LET s2 == SliceTo(s, n)
          IN IF ~ValidLo(s2, i + vs.len) \/ ~ValidLo(s, i) THEN Panic(h)
             ELSE LET h1 == Copy(h, SliceFrom(s2, i + vs.len), SliceFrom(s, i))
                  IN IF ~ValidLo(s2, i) THEN Panic(h1)
                     ELSE Return(Copy(h1, SliceFrom(s2, i), vs), s2)
     ELSE LET m == Make(h, n, n)
              s2 == m.res
          IN IF ~ValidHi(s, i) THEN Panic(m.heap)
             ELSE LET h1 == Copy(m.heap, s2, SliceTo(s, i))
                  IN IF ~ValidLo(s2, i) THEN Panic(h1)
                     ELSE LET h2 == Copy(h1, SliceFrom(s2, i), vs)
                          IN IF ~ValidLo(s2, i + vs.len) \/ ~ValidLo(s, i) THEN Panic(h2)
                             ELSE Return(Copy(h2, SliceFrom(s2, i + vs.len), SliceFrom(s, i)), s2)

\* ---- Delete ----
\* mutant: the result is re-sliced but the tail is never shifted
DeleteNoShift(h, s, i, j) ==
  IF ~ValidLo(s, i) \/ ~ValidLo(s, j) THEN Panic(h)
  ELSE LET hi == i + CopyN(SliceFrom(s, i), SliceFrom(s, j))
       IN IF ~ValidHi(s, hi) THEN Panic(h) ELSE Return(h, SliceTo(s, hi))

\* Delete(s, i, j) == s[:i+copy(s[i:], s[j:])]
Delete(h, s, i, j) ==
  IF ~ValidLo(s, i) \/ ~ValidLo(s, j) THEN Panic(h)
  ELSE LET dst == SliceFrom(s, i)
           src == SliceFrom(s, j)
           h1 == Copy(h, dst, src)
           hi == i + CopyN(dst, src)
       IN IF ~ValidHi(s, hi) THEN Panic(h1) ELSE Return(h1, SliceTo(s, hi))

\* ---- Clone ----
\* mutant: the slice itself is returned, no new storage
CloneAlias(h, s) == Return(h, s)

Clone(h, s) ==
  LET m == Make(h, s.len, s.cap)
  IN Return(Copy(m.heap, m.res, s), m.res)

\* ---- Compact ----
RECURSIVE CompactLoop(_, _, _, _)
CompactLoop(h, s, i, j) ==
  IF i < s.len
  THEN IF h[s.arr][s.off + i + 1] = h[s.arr][s.off + j]
       THEN CompactLoop(h, s, i + 1, j)
       ELSE CompactLoop([h EXCEPT ![s.arr][s.off + j + 1] = h[s.arr][s.off + i + 1]],
                        s, i + 1, j + 1)
  ELSE Return(h, SliceTo(s, j))

\* mutant: the scan starts at index 2
CompactFrom2(h, s) ==
  IF s.len = 0 \/ s.len = 1 THEN Return(h, s) ELSE CompactLoop(h, s, 2, 1)

Compact(h, s) ==
  IF s.len = 0 \/ s.len = 1 THEN Return(h, s) ELSE CompactLoop(h, s, 1, 1)

\* ---- Grow ----
\* mutant: the final re-slice to len(s) is missing
GrowNoReslice(h, s, n, extra) ==
  IF n < 0 THEN Panic(h)
  ELSE LET m == Make(h, n, n)
       IN GoAppend(m.heap, SliceTo(s, s.cap), m.res, extra)

\* Grow(s, n) == append(s[:cap(s)], make([]T, n, n)...)[:len(s)]
Grow(h, s, n, extra) ==
  IF n < 0 THEN Panic(h)
  ELSE LET m == Make(h, n, n)
           a == GoAppend(m.heap, SliceTo(s, s.cap), m.res, extra)
       IN Return(a.heap, SliceTo(a.res, s.len))

\* ---- the caller ----
VARIABLES pc, op, heap0, heap, s, i, j, n, vs, other, r, panicked, ret

vars == <<pc, op, heap0, heap, s, i, j, n, vs, other, r, panicked, ret>>

Init ==
  /\ pc = "ready"
  /\ op = "none"
  /\ \E o \in 0..MaxOff : \E c \in 0..MaxCap : \E l \in 0..c :
       \E a \in [1..(o + c) -> Values] :
         /\ heap = <<a>>
         /\ s = [arr |-> 1, off |-> o, len |-> l, cap |-> c]
  /\ heap0 = heap
  /\ i = 0 /\ j = 0 /\ n = 0
  /\ vs = NilSlice
  /\ other = <<>>
  /\ r = NilSlice
  /\ panicked = FALSE
  /\ ret = 0

\* the result of a call that returns a slice
Finish(name, before, out) ==
  /\ pc' = "done"
  /\ op' = name
  /\ heap0' = before
  /\ heap' = out.heap
  /\ r' = out.res
  /\ panicked' = out.panic
  /\ UNCHANGED s

\* Insert(s, i, v1, ..., vk) with values in a slice of their own
CallInsert ==
  /\ pc = "ready"
  /\ \E ii \in -1..(MaxCap + 1) : \E vals \in SeqsUpTo(MaxVs) :
       LET lit == Literal(heap, vals)
       IN /\ i' = ii
          /\ vs' = lit.res
          /\ Finish("Insert", lit.heap, Insert(lit.heap, s, ii, lit.res))
  /\ UNCHANGED <<j, n, other, ret>>

\* Insert(s, i, s[a:b]...): the values share the backing storage of s
CallInsertSelf ==
  /\ pc = "ready"
  /\ \E ii \in -1..(MaxCap + 1) : \E b \in 0..s.len : \E a \in 0..b :
       LET v == [arr |-> s.arr, off |-> s.off + a, len |-> b - a, cap |-> s.cap - a]
       IN /\ i' = ii
          /\ vs' = v
          /\ Finish("InsertSelf", heap, Insert(heap, s, ii, v))
  /\ UNCHANGED <<j, n, other, ret>>

CallDelete ==
  /\ pc = "ready"
  /\ \E ii \in -1..(MaxCap + 1) : \E jj \in -1..(MaxCap + 1) :
       /\ i' = ii
       /\ j' = jj
       /\ Finish("Delete", heap, Delete(heap, s, ii, jj))
  /\ UNCHANGED <<n, vs, other, ret>>

CallClone ==
  /\ pc = "ready"
  /\ Finish("Clone", heap, Clone(heap, s))
  /\ UNCHANGED <<i, j, n, vs, other, ret>>

CallCompact ==
  /\ pc = "ready"
  /\ Finish("Compact", heap, Compact(heap, s))
  /\ UNCHANGED <<i, j, n, vs, other, ret>>

CallGrow ==
  /\ pc = "ready"
  /\ \E nn \in -1..MaxN : \E extra \in 0..MaxExtra :
       /\ n' = nn
       /\ Finish("Grow", heap, Grow(heap, s, nn, extra))
  /\ UNCHANGED <<i, j, vs, other, ret>>

CallCompare ==
  /\ pc = "ready"
  /\ \E t \in SeqsUpTo(MaxCap) :
       /\ other' = t
       /\ ret' = Compare(Elems(heap, s), t)
  /\ pc' = "done"
  /\ op' = "Compare"
  /\ UNCHANGED <<heap0, heap, s, i, j, n, vs, r, panicked>>

\* Delete(Insert(Clone(s), i, x), i, i+1)
CallRoundTrip ==
  /\ pc = "ready"
  /\ \E ii \in -1..(MaxCap + 1) : \E x \in Values :
       LET lit == Literal(heap, <<x>>)
           c == Clone(lit.heap, s)
           ins == Insert(c.heap, c.res, ii, lit.res)
           del == Delete(ins.heap, ins.res, ii, ii + 1)
       IN /\ i' = ii
          /\ vs' = lit.res
          /\ Finish("RoundTrip", lit.heap, IF ins.panic THEN ins ELSE del)
  /\ UNCHANGED <<j, n, other, ret>>

Next ==
  \/ CallInsert
  \/ CallInsertSelf
  \/ CallDelete
  \/ CallClone
  \/ CallCompact
  \/ CallGrow
  \/ CallCompare
  \/ CallRoundTrip

Spec == Init /\ [][Next]_vars

\* ---- well-formedness ----
WellFormed(h, sl) ==
  /\ sl.arr \in 1..Len(h)
  /\ 0 <= sl.off /\ 0 <= sl.len /\ sl.len <= sl.cap
  /\ sl.off + sl.cap <= Len(h[sl.arr])

\* every array the caller could see before the call is unchanged
CallerStorageUnchanged ==
  /\ Len(heap) >= Len(heap0)
  /\ \A k \in 1..Len(heap0) : heap[k] = heap0[k]

before == Elems(heap0, s)

InRange(k) == 0 <= k /\ k <= s.len

\* ---- Insert ----
Inserted == SubSeq(before, 1, i) \o Elems(heap0, vs) \o SubSeq(before, i + 1, s.len)

\* C1: for 0 <= i <= len(s) and values that do not share storage with s,
\* Insert returns a slice of length len(s)+len(values) holding s[0..i),
\* then the values in order, then s[i..len(s)), on the capacity-reuse path
\* and on the allocating path alike.
C1_InsertResult ==
  (pc = "done" /\ op = "Insert" /\ InRange(i)) =>
    /\ ~panicked
    /\ WellFormed(heap, r)
    /\ r.len = s.len + vs.len
    /\ Elems(heap, r) = Inserted
    /\ (s.len + vs.len <= s.cap => r.arr = s.arr)
    /\ (s.len + vs.len > s.cap => r.arr > Len(heap0))

C1_Witness ==
  /\ pc = "done" /\ op = "Insert" /\ ~panicked
  /\ vs.len = 2 /\ i = 1 /\ s.len = 3
  /\ r.arr # s.arr
  /\ Elems(heap, r) = <<1, 2, 0, 2, 1>>

\* C4: Insert panics for every i < 0 and every i > len(s), also when
\* len(s) < i <= cap(s), for any number of values and on both paths, and
\* the caller's backing storage is as it was before the call.
C4_InsertOutOfRange ==
  (pc = "done" /\ op \in {"Insert", "InsertSelf"} /\ ~InRange(i)) =>
    /\ panicked
    /\ CallerStorageUnchanged

C4_Witness ==
  /\ pc = "done" /\ op = "Insert" /\ panicked
  /\ s.len < i /\ i <= s.cap
  /\ vs.len = 2 /\ s.len + vs.len <= s.cap
  /\ heap0[vs.arr][1] # heap0[s.arr][s.off + i + 1]

\* C5: when the inserted values are a sub-slice of s, Insert still returns
\* s[0..i), then the values as they were before the call, then s[i..len(s)).
C5_InsertSelfResult ==
  (pc = "done" /\ op = "InsertSelf" /\ InRange(i)) =>
    /\ ~panicked
    /\ Elems(heap, r) = Inserted

\* ---- Delete ----
\* C2: for 0 <= i <= j <= len(s), Delete returns a view of length
\* len(s)-(j-i) over the backing storage of s, nothing is allocated, and
\* the view holds the original s[0..i) followed by the original s[j..len(s)).
C2_DeleteResult ==
  (pc = "done" /\ op = "Delete" /\ 0 <= i /\ i <= j /\ j <= s.len) =>
    /\ ~panicked
    /\ r.arr = s.arr /\ r.off = s.off /\ r.cap = s.cap
    /\ Len(heap) = Len(heap0)
    /\ r.len = s.len - (j - i)
    /\ Elems(heap, r) = SubSeq(before, 1, i) \o SubSeq(before, j + 1, s.len)

C2_Witness ==
  /\ pc = "done" /\ op = "Delete" /\ ~panicked
  /\ i = 1 /\ j = 2 /\ s.len = 3
  /\ before = <<1, 2, 0>>
  /\ Elems(heap, r) = <<1, 0>>
  /\ heap # heap0

\* C3: Delete panics on every call in which 0 <= i <= j <= len(s) does not
\* hold, i > j within [0, len(s)] included; it returns no slice and leaves
\* the backing storage alone.
C3_DeleteInvalidRange ==
  (pc = "done" /\ op = "Delete" /\ ~(0 <= i /\ i <= j /\ j <= s.len)) =>
    /\ panicked
    /\ heap = heap0

\* ---- Compact ----
Kept(q) == {k \in 1..Len(q) : k = 1 \/ q[k] # q[k - 1]}

\* the m-th kept position
NthKept(q, m) == CHOOSE k \in Kept(q) : Cardinality({x \in Kept(q) : x <= k}) = m

\* each maximal run of equal neighbours collapsed to its first element
Collapsed(q) == [m \in 1..Cardinality(Kept(q)) |-> q[NthKept(q, m)]]

\* C6: Compact returns a view over the storage of s holding s with each
\* maximal run of consecutive equal elements collapsed to its first element
\* (order kept, non-adjacent duplicates kept), so no two neighbours of the
\* result are equal; an empty or one-element s is returned unchanged.
C6_CompactResult ==
  (pc = "done" /\ op = "Compact") =>
    /\ ~panicked
    /\ r.arr = s.arr /\ r.off = s.off /\ r.cap = s.cap
    /\ Len(heap) = Len(heap0)
    /\ Elems(heap, r) = Collapsed(before)
    /\ \A k \in 1..(r.len - 1) : Elems(heap, r)[k] # Elems(heap, r)[k + 1]
    /\ (s.len <= 1 => r = s /\ heap = heap0)

C6_Witness ==
  /\ pc = "done" /\ op = "Compact"
  /\ before = <<1, 1, 2>>
  /\ Elems(heap, r) = <<1, 2>>

\* ---- Grow ----
\* C7: for n >= 0, Grow returns a slice with the length and the elements of
\* s and capacity >= len(s)+n, so that appending n elements stays in its
\* backing array.
C7_GrowResult ==
  (pc = "done" /\ op = "Grow" /\ n >= 0) =>
    /\ ~panicked
    /\ WellFormed(heap, r)
    /\ r.len = s.len
    /\ Elems(heap, r) = before
    /\ r.cap >= s.len + n
    /\ LET more == Literal(heap, [k \in 1..n |-> 0])
       IN GoAppend(more.heap, r, more.res, 0).res.arr = r.arr

C7_Witness ==
  /\ pc = "done" /\ op = "Grow" /\ ~panicked
  /\ n = 2 /\ s.len = 2 /\ s.cap = 3
  /\ r.cap >= 4 /\ r.arr # s.arr

\* C8: Grow allocates only when the capacity is insufficient: when
\* cap(s)-len(s) >= n >= 0 the result is a view over the backing storage
\* of s.
C8_GrowNoAllocation ==
  (pc = "done" /\ op = "Grow" /\ n >= 0 /\ s.cap - s.len >= n) =>
    /\ ~panicked
    /\ r.arr = s.arr /\ r.off = s.off

\* ---- Delete(Insert(Clone(s), i, x), i, i+1) ----
\* C9: for 0 <= i <= len(s), Delete(Insert(Clone(s), i, x), i, i+1) has the
\* length and the elements of s, and s (its elements and its backing
\* storage) is unchanged by the three calls.
C9_RoundTrip ==
  (pc = "done" /\ op = "RoundTrip" /\ InRange(i)) =>
    /\ ~panicked
    /\ r.len = s.len
    /\ Elems(heap, r) = before
    /\ r.arr # s.arr
    /\ CallerStorageUnchanged

C9_Witness ==
  /\ pc = "done" /\ op = "RoundTrip" /\ ~panicked
  /\ s.len = 2 /\ s.cap = 3 /\ i = 1
  /\ before = <<1, 2>>
  /\ heap0[vs.arr] = <<0>>
  /\ Elems(heap, r) = <<1, 2>>

\* ---- Compare ----
Differing(s1, s2) == {k \in 1..Min(Len(s1), Len(s2)) : s1[k] # s2[k]}

Lexicographic(s1, s2) ==
  IF Differing(s1, s2) # {}
  THEN LET k == CHOOSE d \in Differing(s1, s2) : \A e \in Differing(s1, s2) : d <= e
       IN IF s1[k] < s2[k] THEN -1 ELSE 1
  ELSE IF Len(s1) < Len(s2) THEN -1
       ELSE IF Len(s1) = Len(s2) THEN 0 ELSE 1

\* C10: Compare is the lexicographic comparison: at the smallest index k
\* below both lengths with s1[k] # s2[k] it is -1 if s1[k] < s2[k] and +1
\* otherwise; without such a k it is -1, 0 or +1 as len(s1) is less than,
\* equal to or greater than len(s2).
C10_CompareLexicographic ==
  (pc = "done" /\ op = "Compare") => ret = Lexicographic(before, other)

C10_Witness ==
  /\ pc = "done" /\ op = "Compare"
  /\ before = <<1, 2>> /\ other = <<1, 2, 0>>
  /\ ret = -1

====
